---- MODULE Spec2Model ----
(***************************************************************************)
(* Lowering of the transformable operators of                              *)
(* tinynn/converter/operators/tflite/transformable.py:                     *)
(* BatchNormOperator, GenericConvOperator and GenericTransposeConvOperator *)
(* and the tensor factory of TransformableOperator.                        *)
(*                                                                         *)
(* Python lists are objects: `lists` is the heap of list objects and an    *)
(* operator holds the identity of its input list and of its output list,   *)
(* so that two operators sharing one list see each other's item            *)
(* assignments.  Tensors are immutable and are modelled by value.  An      *)
(* array is modelled by its shape, dtype and, for constants written as     *)
(* literals in the code, its data.                                         *)
(***************************************************************************)
EXTENDS Integers, Sequences, FiniteSets, TLC

VARIABLES kind, pc, error, orig, self, lists, calls, bn,
          prev_ops, ops, next_ops, conv_op, emitted, restored, checked, node

vars == <<kind, pc, error, orig, self, lists, calls, bn,
          prev_ops, ops, next_ops, conv_op, emitted, restored, checked, node>>

\* what the graph container holds, and the locals of the post-condition loop
graph == <<emitted, restored, checked, node>>

(* ------------------------------ bounds -------------------------------- *)
MaxChannels == 2
MaxPad == 1
MaxOutDegree == 2

\* the ranks torch gives the activations of a 1-D, 2-D or 3-D convolution or
\* batch normalization, unbatched or batched, and the weights of a
\* convolution
Ranks == {2, 3, 4, 5}
WeightRanks == {3, 4, 5}

(* ------------------------------ arrays -------------------------------- *)
Array(shape, dtype, data) == [shape |-> shape, dtype |-> dtype, data |-> data]

Int32Array(values) == Array(<<Len(values)>>, "int32", values)

ndim(a) == Len(a.shape)

\* np.transpose(a, axes): defined only when axes has one entry per axis
transpose_ok(a, axes) == Len(axes) = ndim(a)

np_transpose(a, axes) ==
    Array([i \in 1..Len(axes) |-> a.shape[axes[i] + 1]], a.dtype, <<>>)

\* np.expand_dims(a, 2); every array here has at least two axes
np_expand_dims(a) ==
    Array([i \in 1..(ndim(a) + 1) |->
              IF i < 3 THEN a.shape[i] ELSE IF i = 3 THEN 1 ELSE a.shape[i - 1]],
          a.dtype, <<>>)

\* np.pad(a, pad) with pad a sequence of <<before, after>> pairs
pad_ok(a, pad) == Len(pad) = ndim(a)

np_pad(a, pad) ==
    Array([i \in 1..ndim(a) |-> a.shape[i] + pad[i][1] + pad[i][2]], a.dtype, <<>>)

Flatten(pad) == [i \in 1..(2 * Len(pad)) |-> pad[(i + 1) \div 2][2 - (i % 2)]]

sum(s) == LET RECURSIVE go(_)
              go(i) == IF i > Len(s) THEN 0 ELSE s[i] + go(i + 1)
          IN go(1)

insert0(s, v) == <<v>> \o s

(* ------------------------------ tensors ------------------------------- *)
Tensor(tensor, name, has_buffer, quantization) ==
    [name |-> name, shape |-> tensor.shape, dtype |-> tensor.dtype,
     data |-> tensor.data, has_buffer |-> has_buffer, quantization |-> quantization]

arr(t) == Array(t.shape, t.dtype, t.data)

None == [name |-> "None", shape |-> <<>>, dtype |-> "None", data |-> <<>>,
         has_buffer |-> FALSE, quantization |-> "None"]

(* ------------------------- the tensor factory ------------------------- *)
\* the factory's state: the two counters of the operator, and the calls made
Factory == [attr_count |-> self.attr_count, transform_count |-> self.transform_count,
            calls |-> calls]

AttrNameWithoutCount(oname, attr_count) == oname \o "_te_attr"

AttrName(oname, attr_count) ==
    IF attr_count = 0 THEN oname \o "_te_attr"
    ELSE oname \o "_te_attr_" \o ToString(attr_count)

TransformName(oname, transform_count) ==
    IF transform_count = 0 THEN oname \o "_te_transform"
    ELSE oname \o "_te_transform_" \o ToString(transform_count)

\* create_attr_tensor(tensor, name, quantization); oname is self.outputs[0].name
\* at the time of the call, name = "" stands for name=None
create_attr_tensor(f, oname, tensor, name, quantization) ==
    LET nm == IF name = "" THEN AttrName(oname, f.attr_count) ELSE name
        ac == IF name = "" THEN f.attr_count + 1 ELSE f.attr_count
        t  == Tensor(tensor, nm, TRUE, quantization)
    IN [t |-> t,
        f |-> [attr_count |-> ac, transform_count |-> f.transform_count,
               calls |-> Append(f.calls,
                   [kind |-> "attr", explicit |-> name # "", name |-> nm,
                    attr_count |-> ac, transform_count |-> f.transform_count])]]

create_transform_tensor(f, oname, tensor, name, quantization) ==
    LET nm == IF name = "" THEN TransformName(oname, f.transform_count) ELSE name
        tc == IF name = "" THEN f.transform_count + 1 ELSE f.transform_count
        t  == Tensor(tensor, nm, FALSE, quantization)
    IN [t |-> t,
        f |-> [attr_count |-> f.attr_count, transform_count |-> tc,
               calls |-> Append(f.calls,
                   [kind |-> "transform", explicit |-> name # "", name |-> nm,
                    attr_count |-> f.attr_count, transform_count |-> tc])]]

(* ----------------------------- operators ------------------------------ *)
\* an operator object: its kind, the identities of its input and output
\* lists, and its attributes
Operator(k, inputs, outputs, attrs) ==
    [kind |-> k, inputs |-> inputs, outputs |-> outputs, attrs |-> attrs]

NoOp == Operator("None", 0, 0, <<>>)

In(op) == lists[op.inputs]
Out(op) == lists[op.outputs]

\* self.outputs[0].name
OName == lists[self.outputs][1].name

SetItem(h, id, i, v) == [h EXCEPT ![id] = [@ EXCEPT ![i] = v]]

\* the message of the assertion of lines 200 and 354
Unsupported == "AssertionError: Only Conv[Transpose]1d/2d is supported"

Raise(e) ==
    /\ pc' = "done"
    /\ error' = e

(* ------------------- wrap_ops_with_nhwc_nchw_transposes ---------------- *)
\* wraps the chain `chain` (operator objects) of heap h; input_idx is 0-based
\* as in the code.  The result carries the factory state and heap reached,
\* also when np.transpose raises.
wrap_ops_with_nhwc_nchw_transposes(f, h, oname, chain, input_idx) ==
    LET first == chain[1]
        last == chain[Len(chain)]
        orig_input == h[first.inputs][input_idx + 1]
        orig_output == h[last.outputs][1]
        nhwc2nchw_perm == <<0, 3, 1, 2>>
        nchw2nhwc_perm == <<0, 2, 3, 1>>
        r1 == create_attr_tensor(f, oname, Int32Array(nhwc2nchw_perm), "", "None")
        r2 == create_attr_tensor(r1.f, oname, Int32Array(nchw2nhwc_perm), "", "None")
        r3 == create_transform_tensor(r2.f, oname,
                  np_transpose(arr(orig_input), nchw2nhwc_perm), "", orig_input.quantization)
        r4 == create_transform_tensor(r3.f, oname,
                  np_transpose(arr(orig_output), nchw2nhwc_perm), "", orig_output.quantization)
        n == Len(h)
        h1 == h \o << <<orig_input, r2.t>>, <<r3.t>>, <<r4.t, r1.t>>, <<orig_output>> >>
        nchw2nhwc_transpose == Operator("TRANSPOSE", n + 1, n + 2, <<>>)
        nhwc2nchw_transpose == Operator("TRANSPOSE", n + 3, n + 4, <<>>)
        h2 == SetItem(h1, first.inputs, input_idx + 1, r3.t)
        h3 == SetItem(h2, last.outputs, 1, r4.t)
    IN IF ~transpose_ok(arr(orig_input), nchw2nhwc_perm)
       THEN [error |-> "ValueError", f |-> r2.f, lists |-> h, ops |-> chain]
       ELSE IF ~transpose_ok(arr(orig_output), nchw2nhwc_perm)
       THEN [error |-> "ValueError", f |-> r3.f, lists |-> h, ops |-> chain]
       ELSE [error |-> "none", f |-> r4.f, lists |-> h3,
             ops |-> <<nchw2nhwc_transpose>> \o chain \o <<nhwc2nchw_transpose>>]

(* ------------------------------ inputs -------------------------------- *)
\* an activation or weight shape of rank r: two leading extents, then
\* spatial extents that differ from each other and from every channel count
Shape(r, d0, d1) ==
    [i \in 1..r |-> IF i = 1 THEN d0 ELSE IF i = 2 THEN d1 ELSE MaxChannels + i]

Ones(n) == [i \in 1..n |-> 1]
Zeros(n) == [i \in 1..n |-> 0]

FloatOr(q, other) == IF q = "None" THEN "float32" ELSE other

BiasTensors(n, q) ==
    [absent |-> <<>>,
     none   |-> <<None>>,
     scalar |-> <<Tensor(Array(<<1>>, FloatOr(q, "int32"), <<3>>), "b", TRUE, "None")>>,
     full   |-> <<Tensor(Array(<<n>>, FloatOr(q, "int32"), [i \in 1..n |-> 3]), "b", TRUE, "None")>>]

Quantizations == {"None", "qparams"}

\* the constructor arguments of a GenericConvOperator (transposed = FALSE) or
\* a GenericTransposeConvOperator: input x, weight w, optional bias b, output y
ConvArgs(transposed, ir, wr, w0, w1, g, q, b, p) ==
    [inputs |-> << Tensor(Array(Shape(ir, 1, IF transposed THEN w0 ELSE w1 * g),
                                FloatOr(q, "uint8"), <<>>), "x", FALSE, q),
                   Tensor(Array(Shape(wr, w0, w1), FloatOr(q, "int8"), <<>>), "w", TRUE, q) >>
                \o BiasTensors(IF transposed THEN w1 * g ELSE w0, q)[b],
     outputs |-> << Tensor(Array(Shape(ir, 1, IF transposed THEN w1 * g ELSE w0),
                                 FloatOr(q, "uint8"), <<>>), "y", FALSE, q) >>,
     groups |-> g, padding |-> p, n |-> wr - 2]

SelfOf(a, fused) ==
    [inputs |-> 1, outputs |-> 2,
     stride |-> Ones(a.n), padding |-> a.padding, dilation |-> Ones(a.n),
     output_padding |-> Zeros(a.n), groups |-> a.groups,
     fusedActivationFunction |-> fused, attr_count |-> 0, transform_count |-> 0]

\* the constructor arguments of a BatchNormOperator: x and the four
\* per-channel parameters, which have a buffer unless has_buffers is FALSE
BatchNormArgs(r, c, q, has_buffers) ==
    [inputs |-> << Tensor(Array(Shape(r, 1, c), FloatOr(q, "uint8"), <<>>), "x", FALSE, q) >>
                \o [i \in 1..4 |->
                      Tensor(Array(<<c>>, "float32", <<>>),
                             <<"weight", "bias", "running_mean", "running_var">>[i],
                             has_buffers \/ i < 4, "None")],
     outputs |-> << Tensor(Array(Shape(r, 1, c), FloatOr(q, "uint8"), <<>>), "y", FALSE, q) >>,
     groups |-> 1, padding |-> <<>>, n |-> 0]

NoBN == [weight |-> None, bias |-> None, new_inp |-> None, mul_out |-> None, add_out |-> None]

InitWith(k, a, fused) ==
    /\ kind = k
    /\ orig = [inputs |-> a.inputs, outputs |-> a.outputs, padding |-> a.padding]
    /\ self = SelfOf(a, fused)
    /\ lists = <<a.inputs, a.outputs>>
    /\ pc = "start"
    /\ error = "none"
    /\ calls = <<>>
    /\ bn = NoBN
    /\ prev_ops = <<>>
    /\ ops = <<>>
    /\ next_ops = <<>>
    /\ conv_op = NoOp
    /\ emitted = <<>>
    /\ restored = FALSE
    /\ checked = 0
    /\ node = <<>>

\* the group counts torch accepts: they divide the first extent of the weight
Groups(w0) == {d \in 1..MaxChannels : w0 % d = 0}

Init ==
    \/ \E r \in Ranks, c \in 1..MaxChannels, q \in Quantizations, has_buffers \in BOOLEAN,
          fused \in {"NONE", "RELU"} :
            InitWith("BatchNorm", BatchNormArgs(r, c, q, has_buffers), fused)
    \/ \E transposed \in BOOLEAN, ir \in Ranks, wr \in WeightRanks,
          w0 \in 1..MaxChannels, w1 \in 1..MaxChannels, q \in Quantizations,
          b \in {"absent", "none", "scalar", "full"} :
            \E g \in Groups(w0), p \in [1..(wr - 2) -> 0..MaxPad] :
                InitWith(IF transposed THEN "GenericTransposeConv" ELSE "GenericConv",
                         ConvArgs(transposed, ir, wr, w0, w1, g, q, b, p), "NONE")

\* graph_converter.add_operator(op, transform=flag)
add_operator(g, op, flag) == Append(g, [op |-> op, transform |-> flag])

SetFactory(f) ==
    /\ self' = [self EXCEPT !.attr_count = f.attr_count, !.transform_count = f.transform_count]
    /\ calls' = f.calls

(* ----------------------- BatchNormOperator.transform ------------------- *)
\* lines 85-101: the assertion, the fold constants and their attribute tensors
BatchNormFold ==
    /\ kind = "BatchNorm" /\ pc = "start"
    /\ LET inputs == lists[self.inputs]
           w == inputs[2]
           inp == inputs[1]
           new_shape == <<1, w.shape[1]>> \o Ones(ndim(arr(inp)) - 2)
           r1 == create_attr_tensor(Factory, OName, Array(new_shape, "float32", <<>>), "", "None")
           r2 == create_attr_tensor(r1.f, OName, Array(new_shape, "float32", <<>>), "", "None")
       IN IF \E i \in 2..Len(inputs) : ~inputs[i].has_buffer
          THEN Raise("AssertionError: buffer") /\ UNCHANGED <<self, calls, bn>>
          ELSE /\ pc' = "bn_dequant"
               /\ bn' = [bn EXCEPT !.weight = r1.t, !.bias = r2.t]
               /\ SetFactory(r2.f)
               /\ UNCHANGED error
    /\ UNCHANGED <<kind, orig, lists, prev_ops, ops, next_ops, conv_op, emitted,
                   restored, checked, node>>

\* the first input of the multiply operator, line 109
MulInput(inp, new_inp) == inp

\* lines 103-106
BatchNormDequantize ==
    /\ kind = "BatchNorm" /\ pc = "bn_dequant"
    /\ LET inp == lists[self.inputs][1]
           r == create_transform_tensor(Factory, OName, arr(inp), "", "None")
           n == Len(lists)
       IN IF inp.quantization # "None"
          THEN /\ bn' = [bn EXCEPT !.new_inp = r.t]
               /\ SetFactory(r.f)
               /\ lists' = lists \o << <<inp>>, <<r.t>> >>
               /\ emitted' = add_operator(emitted, Operator("DEQUANTIZE", n + 1, n + 2, <<>>), FALSE)
          ELSE /\ bn' = [bn EXCEPT !.new_inp = inp]
               /\ UNCHANGED <<self, calls, lists, emitted>>
    /\ pc' = "bn_mul"
    /\ UNCHANGED <<kind, error, orig, prev_ops, ops, next_ops, conv_op, restored, checked, node>>

\* lines 108-109; new_inp.tensor * weight.tensor broadcasts to new_inp's shape
BatchNormMul ==
    /\ kind = "BatchNorm" /\ pc = "bn_mul"
    /\ LET inp == lists[self.inputs][1]
           r == create_transform_tensor(Factory, OName,
                    Array(bn.new_inp.shape, "float32", <<>>), "", "None")
           n == Len(lists)
       IN /\ bn' = [bn EXCEPT !.mul_out = r.t]
          /\ SetFactory(r.f)
          /\ lists' = lists \o << <<MulInput(inp, bn.new_inp), bn.weight>>, <<r.t>> >>
          /\ emitted' = add_operator(emitted, Operator("MUL", n + 1, n + 2, <<>>), FALSE)
    /\ pc' = "bn_add"
    /\ UNCHANGED <<kind, error, orig, prev_ops, ops, next_ops, conv_op, restored, checked, node>>

\* lines 111-118
BatchNormAdd ==
    /\ kind = "BatchNorm" /\ pc = "bn_add"
    /\ LET inp == lists[self.inputs][1]
           r == create_transform_tensor(Factory, OName,
                    Array(bn.mul_out.shape, "float32", <<>>), "", "None")
           quantized == inp.quantization # "None"
           add_out == IF quantized THEN r.t ELSE lists[self.outputs][1]
           n == Len(lists)
       IN /\ bn' = [bn EXCEPT !.add_out = add_out]
          /\ IF quantized THEN SetFactory(r.f) ELSE UNCHANGED <<self, calls>>
          /\ lists' = lists \o << <<bn.mul_out, bn.bias>>, <<add_out>> >>
          /\ emitted' = add_operator(emitted,
                 Operator("ADD", n + 1, n + 2, <<self.fusedActivationFunction>>), TRUE)
    /\ pc' = "bn_quant"
    /\ UNCHANGED <<kind, error, orig, prev_ops, ops, next_ops, conv_op, restored, checked, node>>

\* the test of line 120
QuantizeAfterNever(inp) == FALSE

QuantizeAfter(inp) == inp.quantization # "None"

\* lines 120-122
BatchNormQuantize ==
    /\ kind = "BatchNorm" /\ pc = "bn_quant"
    /\ LET inp == lists[self.inputs][1]
           quant_out == lists[self.outputs][1]
           n == Len(lists)
       IN IF QuantizeAfter(inp)
          THEN /\ lists' = lists \o << <<bn.add_out>>, <<quant_out>> >>
               /\ emitted' = add_operator(emitted, Operator("QUANTIZE", n + 1, n + 2, <<>>), TRUE)
          ELSE UNCHANGED <<lists, emitted>>
    /\ pc' = "bn_restore"
    /\ UNCHANGED <<kind, error, orig, self, calls, bn, prev_ops, ops, next_ops, conv_op,
                   restored, checked, node>>

\* line 124
BatchNormRestore ==
    /\ kind = "BatchNorm" /\ pc = "bn_restore"
    /\ restored' = TRUE
    /\ pc' = "done"
    /\ UNCHANGED <<kind, error, orig, self, lists, calls, bn, prev_ops, ops, next_ops,
                   conv_op, emitted, checked, node>>

(* ------------------- dimensionality normalization ---------------------- *)
\* lines 174-196 (and the same code at lines 329-350): the first
\* reshape_input_size inputs and the first output are lifted to rank 4;
\* self.inputs and self.outputs become new lists
Lift(f, h, slf, reshape_input_size) ==
    LET oname == h[slf.outputs][1].name
        x == h[slf.inputs][1]
        w == h[slf.inputs][2]
        y == h[slf.outputs][1]
        two == reshape_input_size = 2
        o1 == create_transform_tensor(f, oname, np_expand_dims(arr(x)),
                  oname \o "_" \o x.name \o "_4d_input", x.quantization)
        o2 == IF two
              THEN create_transform_tensor(o1.f, oname, np_expand_dims(arr(w)),
                       oname \o "_" \o w.name \o "_4d_input", w.quantization)
              ELSE [t |-> None, f |-> o1.f]
        a1 == create_attr_tensor(o2.f, oname, Int32Array(o1.t.shape), "", "None")
        a2 == IF two
              THEN create_attr_tensor(a1.f, oname, Int32Array(o2.t.shape), "", "None")
              ELSE [t |-> None, f |-> a1.f]
        c1 == create_transform_tensor(a2.f, oname, np_expand_dims(arr(y)),
                  oname \o "_4d_output", y.quantization)
        ca == create_attr_tensor(c1.f, oname, Int32Array(y.shape), "", "None")
        n == Len(h)
        reshape_outputs == IF two THEN <<o1.t, o2.t>> ELSE <<o1.t>>
        h1 == h \o << <<x, a1.t>>, <<o1.t>>, <<w, a2.t>>, <<o2.t>>,
                      <<c1.t, ca.t>>, <<y>>,
                      reshape_outputs \o SubSeq(h[slf.inputs], reshape_input_size + 1,
                                                Len(h[slf.inputs])),
                      <<c1.t>> \o SubSeq(h[slf.outputs], 2, Len(h[slf.outputs])) >>
    IN [f |-> ca.f,
        lists |-> h1,
        prev_ops |-> <<Operator("RESHAPE", n + 1, n + 2, a1.t.data)>> \o
                     (IF two THEN <<Operator("RESHAPE", n + 3, n + 4, a2.t.data)>> ELSE <<>>),
        next_ops |-> <<Operator("RESHAPE", n + 5, n + 6, ca.t.data)>>,
        inputs |-> n + 7,
        outputs |-> n + 8]

\* the number of leading inputs GenericConvOperator reshapes, lines 165-172
ReshapeInputSize(weight_dim) == IF weight_dim = 3 THEN 2 ELSE 1

\* the condition under which GenericConvOperator lifts, line 164
NeedsLift(weight_dim, input_dim) == weight_dim = 3 \/ input_dim = 3

(* ---------------------- GenericConvOperator.transform ------------------ *)
\* lines 155-200
ConvNormalize ==
    /\ kind = "GenericConv" /\ pc = "start"
    /\ LET input_tensor == lists[self.inputs][1]
           weight_tensor == lists[self.inputs][2]
           input_dim == Len(input_tensor.shape)
           weight_dim == Len(weight_tensor.shape)
           r == Lift(Factory, lists, self, ReshapeInputSize(weight_dim))
       IN IF NeedsLift(weight_dim, input_dim)
          THEN /\ self' = [self EXCEPT
                       !.stride = IF weight_dim = 3 THEN insert0(@, 1) ELSE @,
                       !.padding = IF weight_dim = 3 THEN insert0(@, 0) ELSE @,
                       !.dilation = IF weight_dim = 3 THEN insert0(@, 1) ELSE @,
                       !.output_padding = IF weight_dim = 3 THEN insert0(@, 0) ELSE @,
                       !.inputs = r.inputs, !.outputs = r.outputs,
                       !.attr_count = r.f.attr_count,
                       !.transform_count = r.f.transform_count]
               /\ calls' = r.f.calls
               /\ lists' = r.lists
               /\ prev_ops' = r.prev_ops
               /\ next_ops' = r.next_ops
               /\ pc' = "select"
               /\ UNCHANGED error
          ELSE IF weight_dim # 4
          THEN Raise(Unsupported) /\ UNCHANGED <<self, calls, lists, prev_ops, next_ops>>
          ELSE pc' = "select" /\ UNCHANGED <<error, self, calls, lists, prev_ops, next_ops>>
    /\ UNCHANGED <<kind, orig, bn, ops, conv_op>>
    /\ UNCHANGED graph

\* the primitive selected at line 202
IsDepthwise(weight_tensor, groups) ==
    weight_tensor.shape[2] = 1 /\ weight_tensor.shape[1] = groups

\* lines 202-216; the warning of line 211 changes no state
ConvSelect ==
    /\ kind = "GenericConv" /\ pc = "select"
    /\ LET weight_tensor == lists[self.inputs][2]
       IN IF Len(self.stride) < 2 \/ Len(self.dilation) < 2
          THEN Raise("IndexError") /\ UNCHANGED conv_op
          ELSE /\ conv_op' = Operator(
                      IF IsDepthwise(weight_tensor, self.groups)
                      THEN "DEPTHWISE_CONV_2D" ELSE "CONV_2D",
                      self.inputs, self.outputs,
                      <<self.stride[1], self.stride[2], self.dilation[1], self.dilation[2]>>)
               /\ pc' = "wrap"
               /\ UNCHANGED error
    /\ UNCHANGED <<kind, orig, self, lists, calls, bn, prev_ops, ops, next_ops>>
    /\ UNCHANGED graph

\* lines 218-219
ConvWrap ==
    /\ kind = "GenericConv" /\ pc = "wrap"
    /\ LET r == wrap_ops_with_nhwc_nchw_transposes(Factory, lists, OName, <<conv_op>>, 0)
       IN /\ SetFactory(r.f)
          /\ lists' = r.lists
          /\ IF r.error # "none"
             THEN Raise(r.error) /\ UNCHANGED ops
             ELSE ops' = r.ops /\ pc' = "pad" /\ UNCHANGED error
    /\ UNCHANGED <<kind, orig, bn, prev_ops, next_ops, conv_op>>
    /\ UNCHANGED graph

InsertAt(s, i, v) == SubSeq(s, 1, i) \o <<v>> \o SubSeq(s, i + 1, Len(s))

\* the test of lines 222 and 363
HasPaddingFirstOnly(padding) == padding[1] > 0

HasPadding(padding) == sum(padding) > 0

\* lines 221-235
ConvPad ==
    /\ kind = "GenericConv" /\ pc = "pad"
    /\ IF HasPadding(self.padding)
       THEN LET pad_h == self.padding[1]
                pad_w == self.padding[2]
                pad == << <<0, 0>>, <<pad_h, pad_h>>, <<pad_w, pad_w>>, <<0, 0>> >>
                r1 == create_attr_tensor(Factory, OName,
                          Array(<<4, 2>>, "int32", Flatten(pad)), "", "None")
                pad_input == Out(ops[1])[1]
                r2 == create_transform_tensor(r1.f, OName, np_pad(arr(pad_input), pad),
                          "", pad_input.quantization)
                n == Len(lists)
                pad_op == Operator("PAD", n + 1, n + 2, <<>>)
            IN IF ~pad_ok(arr(pad_input), pad)
               THEN Raise("ValueError") /\ SetFactory(r1.f) /\ UNCHANGED <<lists, ops>>
               ELSE /\ SetFactory(r2.f)
                    /\ lists' = SetItem(lists \o << <<pad_input, r1.t>>, <<r2.t>> >>,
                                        ops[2].inputs, 1, r2.t)
                    /\ ops' = InsertAt(ops, 1, pad_op)
                    /\ pc' = "weight"
                    /\ UNCHANGED error
       ELSE pc' = "weight" /\ UNCHANGED <<error, self, calls, lists, ops>>
    /\ UNCHANGED <<kind, orig, bn, prev_ops, next_ops, conv_op>>
    /\ UNCHANGED graph

\* the permutation of the weight, lines 239-252
WeightPermSwapped(code) == IF code = "DEPTHWISE_CONV_2D" THEN <<2, 3, 0, 1>> ELSE <<0, 2, 3, 1>>

WeightPerm(code) == IF code = "DEPTHWISE_CONV_2D" THEN <<1, 2, 3, 0>> ELSE <<0, 2, 3, 1>>

\* the position (0-based) at which line 253 inserts the weight transpose
ReorderIndexBeforeConv(chain) == Len(chain) - 2

ReorderIndex(chain) == 1

\* lines 237-253
ConvWeight ==
    /\ kind = "GenericConv" /\ pc = "weight"
    /\ LET weight == In(conv_op)[2]
           perm == WeightPerm(conv_op.kind)
           r1 == create_attr_tensor(Factory, OName, Int32Array(perm), "", "None")
           r2 == create_transform_tensor(r1.f, OName, np_transpose(arr(weight), perm),
                     "", weight.quantization)
           n == Len(lists)
           reorder_op == Operator("TRANSPOSE", n + 1, n + 2, <<>>)
       IN IF ~transpose_ok(arr(weight), perm)
          THEN Raise("ValueError") /\ SetFactory(r1.f) /\ UNCHANGED <<lists, ops>>
          ELSE /\ SetFactory(r2.f)
               /\ lists' = SetItem(lists \o << <<weight, r1.t>>, <<r2.t>> >>,
                                   conv_op.inputs, 2, r2.t)
               /\ ops' = InsertAt(ops, ReorderIndex(ops), reorder_op)
               /\ pc' = "bias"
               /\ UNCHANGED error
    /\ UNCHANGED <<kind, orig, bn, prev_ops, next_ops, conv_op>>
    /\ UNCHANGED graph

\* lines 255-275.  Lines 269 and 271 index a Tensor and pass a string as
\* torch dtype: both raise TypeError.
ConvBias ==
    /\ kind = "GenericConv" /\ pc = "bias"
    /\ LET w == lists[self.inputs][2]
           kernel_num == IF conv_op.kind = "DEPTHWISE_CONV_2D" THEN w.shape[4] ELSE w.shape[1]
           inputs == In(conv_op)
           bias == Array(<<kernel_num>>,
                         IF inputs[1].dtype = "float32" THEN "float32" ELSE "int32",
                         Zeros(kernel_num))
           r == create_attr_tensor(Factory, OName, bias, "", "None")
       IN IF Len(inputs) = 2 \/ inputs[3] = None
          THEN /\ SetFactory(r.f)
               /\ lists' = [lists EXCEPT ![conv_op.inputs] = Append(@, r.t)]
               /\ ops' = prev_ops \o ops \o next_ops
               /\ pc' = "emit"
               /\ UNCHANGED error
          ELSE IF inputs[3].shape[1] # kernel_num /\ inputs[3].shape[1] = 1
          THEN Raise("TypeError") /\ UNCHANGED <<self, calls, lists, ops>>
          ELSE /\ ops' = prev_ops \o ops \o next_ops
               /\ pc' = "emit"
               /\ UNCHANGED <<error, self, calls, lists>>
    /\ UNCHANGED <<kind, orig, bn, prev_ops, next_ops, conv_op>>
    /\ UNCHANGED graph

\* lines 277-278, one iteration
ConvAddOperator ==
    /\ kind = "GenericConv" /\ pc = "emit"
    /\ Len(emitted) < Len(ops)
    /\ emitted' = add_operator(emitted, ops[Len(emitted) + 1], TRUE)
    /\ UNCHANGED <<kind, pc, error, orig, self, lists, calls, bn, prev_ops, ops, next_ops,
                   conv_op, restored, checked, node>>

\* line 280
ConvRestore ==
    /\ kind = "GenericConv" /\ pc = "emit"
    /\ Len(emitted) = Len(ops)
    /\ restored' = TRUE
    /\ pc' = "check"
    /\ UNCHANGED <<kind, error, orig, self, lists, calls, bn, prev_ops, ops, next_ops,
                   conv_op, emitted, checked, node>>

\* the out-edges the graph container may hold for a node: the node types of
\* their targets, in edge order
OutEdges ==
    UNION { [1..d -> {"OPERATOR", "CONSTANT_NODE"}] : d \in 0..MaxOutDegree }

\* the number of operators the loop of line 282 visits
LoopLength(all) == Len(all) - 1

\* the assertion of lines 288-289 on the out-edges of a node
ConstantSuccessorAny(edges) == \E j \in 1..Len(edges) : edges[j] = "CONSTANT_NODE"

ConstantSuccessor(edges) == edges[1] = "CONSTANT_NODE"

\* lines 282-289, one iteration: the node of the operator's first output is
\* looked up in the graph container, which answers with its out-edges
ConvCheckNode ==
    /\ kind = "GenericConv" /\ pc = "check"
    /\ checked < LoopLength(ops)
    /\ \E edges \in OutEdges :
        /\ node' = edges
        /\ IF Len(edges) = 0
           THEN Raise("AssertionError: outdegree") /\ UNCHANGED checked
           ELSE IF ConstantSuccessor(edges)
           THEN Raise("AssertionError: CONSTANT_NODE") /\ UNCHANGED checked
           ELSE checked' = checked + 1 /\ UNCHANGED <<pc, error>>
    /\ UNCHANGED <<kind, orig, self, lists, calls, bn, prev_ops, ops, next_ops, conv_op,
                   emitted, restored>>

\* the loop of line 282 ends and transform returns
ConvReturn ==
    /\ kind = "GenericConv" /\ pc = "check"
    /\ checked >= LoopLength(ops)
    /\ pc' = "done"
    /\ UNCHANGED <<kind, error, orig, self, lists, calls, bn, prev_ops, ops, next_ops,
                   conv_op, emitted, restored, checked, node>>

(* ----------------- GenericTransposeConvOperator.transform -------------- *)
\* lines 316-354
DeconvNormalize ==
    /\ kind = "GenericTransposeConv" /\ pc = "start"
    /\ LET weight_tensor == lists[self.inputs][2]
           weight_dim == Len(weight_tensor.shape)
           r == Lift(Factory, lists, self, 2)
       IN IF weight_dim = 3
          THEN /\ self' = [self EXCEPT
                       !.stride = insert0(@, 1), !.padding = insert0(@, 0),
                       !.dilation = insert0(@, 1), !.output_padding = insert0(@, 0),
                       !.inputs = r.inputs, !.outputs = r.outputs,
                       !.attr_count = r.f.attr_count,
                       !.transform_count = r.f.transform_count]
               /\ calls' = r.f.calls
               /\ lists' = r.lists
               /\ prev_ops' = r.prev_ops
               /\ next_ops' = r.next_ops
               /\ pc' = "create"
               /\ UNCHANGED error
          ELSE IF weight_dim # 4
          THEN Raise(Unsupported) /\ UNCHANGED <<self, calls, lists, prev_ops, next_ops>>
          ELSE pc' = "create" /\ UNCHANGED <<error, self, calls, lists, prev_ops, next_ops>>
    /\ UNCHANGED <<kind, orig, bn, ops, conv_op>>
    /\ UNCHANGED graph

\* lines 356-357: the primitive takes a new list, self.inputs[:2] reversed,
\* and shares self.outputs
DeconvCreate ==
    /\ kind = "GenericTransposeConv" /\ pc = "create"
    /\ LET inputs == lists[self.inputs]
       IN IF Len(self.stride) < 2
          THEN Raise("IndexError") /\ UNCHANGED <<conv_op, lists>>
          ELSE /\ lists' = Append(lists, <<inputs[2], inputs[1]>>)
               /\ conv_op' = Operator("TRANSPOSE_CONV", Len(lists) + 1, self.outputs,
                                      <<self.stride[1], self.stride[2]>>)
               /\ pc' = "wrap"
               /\ UNCHANGED error
    /\ UNCHANGED <<kind, orig, self, calls, bn, prev_ops, ops, next_ops>>
    /\ UNCHANGED graph

\* line 359
DeconvWrap ==
    /\ kind = "GenericTransposeConv" /\ pc = "wrap"
    /\ LET r == wrap_ops_with_nhwc_nchw_transposes(Factory, lists, OName, <<conv_op>>, 1)
       IN /\ SetFactory(r.f)
          /\ lists' = r.lists
          /\ IF r.error # "none"
             THEN Raise(r.error) /\ UNCHANGED ops
             ELSE ops' = r.ops /\ pc' = "pad" /\ UNCHANGED error
    /\ UNCHANGED <<kind, orig, bn, prev_ops, next_ops, conv_op>>
    /\ UNCHANGED graph

\* the start of the slice, line 367
SliceStart(pad_h, pad_w) == <<0, pad_h, pad_w, 0>>

\* the amounts by which line 374 enlarges the output of the primitive
PadSizesOneSided(pad_h, pad_w) == << <<0, 0>>, <<pad_h, 0>>, <<pad_w, 0>>, <<0, 0>> >>

PadSizes(pad_h, pad_w) == << <<0, 0>>, <<pad_h, pad_h>>, <<pad_w, pad_w>>, <<0, 0>> >>

\* lines 361-385: the crop, then the output-shape tensor
DeconvPad ==
    /\ kind = "GenericTransposeConv" /\ pc = "pad"
    /\ IF HasPadding(self.padding)
       THEN LET pad_h == self.padding[1]
                pad_w == self.padding[2]
                start == Int32Array(SliceStart(pad_h, pad_w))
                size == Int32Array(Out(ops[2])[1].shape)
                r1 == create_attr_tensor(Factory, OName, start, "", "None")
                r2 == create_attr_tensor(r1.f, OName, size, "", "None")
                slice_out == Out(ops[2])[1]
                out0 == lists[self.outputs][1]
                pad_sizes == PadSizes(pad_h, pad_w)
                r3 == create_transform_tensor(r2.f, OName, np_pad(arr(out0), pad_sizes),
                          "", out0.quantization)
                slice_input == r3.t
                n == Len(lists)
                slice_op == Operator("SLICE", n + 1, n + 2, <<>>)
                output_shape == slice_input.shape
                r4 == create_attr_tensor(r3.f, OName, Int32Array(output_shape), "", "None")
            IN IF ~pad_ok(arr(out0), pad_sizes)
               THEN Raise("ValueError") /\ SetFactory(r2.f) /\ UNCHANGED <<lists, ops>>
               ELSE /\ SetFactory(r4.f)
                    /\ lists' = [SetItem(lists \o << <<slice_input, r1.t, r2.t>>, <<slice_out>> >>,
                                         ops[2].outputs, 1, slice_input)
                                 EXCEPT ![conv_op.inputs] = insert0(@, r4.t)]
                    /\ ops' = InsertAt(ops, 2, slice_op)
                    /\ pc' = "weight"
                    /\ UNCHANGED error
       ELSE LET output_shape == Out(conv_op)[1].shape
                r4 == create_attr_tensor(Factory, OName, Int32Array(output_shape), "", "None")
            IN /\ SetFactory(r4.f)
               /\ lists' = [lists EXCEPT ![conv_op.inputs] = insert0(@, r4.t)]
               /\ pc' = "weight"
               /\ UNCHANGED <<error, ops>>
    /\ UNCHANGED <<kind, orig, bn, prev_ops, next_ops, conv_op>>
    /\ UNCHANGED graph

\* lines 387-395
DeconvWeight ==
    /\ kind = "GenericTransposeConv" /\ pc = "weight"
    /\ LET weight == In(conv_op)[2]
           nchw2chwn_perm == <<1, 2, 3, 0>>
           r1 == create_attr_tensor(Factory, OName, Int32Array(nchw2chwn_perm), "", "None")
           r2 == create_transform_tensor(r1.f, OName, np_transpose(arr(weight), nchw2chwn_perm),
                     "", weight.quantization)
           n == Len(lists)
           reorder_op == Operator("TRANSPOSE", n + 1, n + 2, <<>>)
       IN IF ~transpose_ok(arr(weight), nchw2chwn_perm)
          THEN Raise("ValueError") /\ SetFactory(r1.f) /\ UNCHANGED <<lists, ops>>
          ELSE /\ SetFactory(r2.f)
               /\ lists' = SetItem(lists \o << <<weight, r1.t>>, <<r2.t>> >>,
                                   conv_op.inputs, 2, r2.t)
               /\ ops' = InsertAt(ops, 1, reorder_op)
               /\ pc' = "bias"
               /\ UNCHANGED error
    /\ UNCHANGED <<kind, orig, bn, prev_ops, next_ops, conv_op>>
    /\ UNCHANGED graph

\* lines 397-405
DeconvBias ==
    /\ kind = "GenericTransposeConv" /\ pc = "bias"
    /\ LET inputs == lists[self.inputs]
           bias_tensor == inputs[3]
           before_last == ops[Len(ops) - 1]
           add_out == Out(before_last)[1]
           r == create_transform_tensor(Factory, OName, arr(add_out), "", "None")
           bias_transform == r.t
           n == Len(lists)
           add_op == Operator("ADD", n + 1, n + 2, <<>>)
       IN IF Len(inputs) > 2 /\ inputs[3] # None
          THEN /\ SetFactory(r.f)
               /\ lists' = SetItem(lists \o << <<bias_transform, bias_tensor>>, <<add_out>> >>,
                                   before_last.outputs, 1, bias_transform)
               /\ ops' = prev_ops \o InsertAt(ops, Len(ops) - 1, add_op) \o next_ops
          ELSE /\ ops' = prev_ops \o ops \o next_ops
               /\ UNCHANGED <<self, calls, lists>>
    /\ pc' = "emit"
    /\ UNCHANGED <<kind, error, orig, bn, prev_ops, next_ops, conv_op>>
    /\ UNCHANGED graph

\* lines 407-408, one iteration
DeconvAddOperator ==
    /\ kind = "GenericTransposeConv" /\ pc = "emit"
    /\ Len(emitted) < Len(ops)
    /\ emitted' = add_operator(emitted, ops[Len(emitted) + 1], FALSE)
    /\ UNCHANGED <<kind, pc, error, orig, self, lists, calls, bn, prev_ops, ops, next_ops,
                   conv_op, restored, checked, node>>

\* line 410
DeconvRestore ==
    /\ kind = "GenericTransposeConv" /\ pc = "emit"
    /\ Len(emitted) = Len(ops)
    /\ restored' = TRUE
    /\ pc' = "done"
    /\ UNCHANGED <<kind, error, orig, self, lists, calls, bn, prev_ops, ops, next_ops,
                   conv_op, emitted, checked, node>>

Next ==
    \/ BatchNormFold
    \/ BatchNormDequantize
    \/ BatchNormMul
    \/ BatchNormAdd
    \/ BatchNormQuantize
    \/ BatchNormRestore
    \/ ConvNormalize
    \/ ConvSelect
    \/ ConvWrap
    \/ ConvPad
    \/ ConvWeight
    \/ ConvBias
    \/ ConvAddOperator
    \/ ConvRestore
    \/ ConvCheckNode
    \/ ConvReturn
    \/ DeconvNormalize
    \/ DeconvCreate
    \/ DeconvWrap
    \/ DeconvPad
    \/ DeconvWeight
    \/ DeconvBias
    \/ DeconvAddOperator
    \/ DeconvRestore

Spec == Init /\ [][Next]_vars

(* ======================= properties of the lowering ==================== *)
Returned == pc = "done" /\ error = "none"

Kinds == [i \in 1..Len(emitted) |-> emitted[i].op.kind]

OrigInput == orig.inputs[1]
OrigWeight == orig.inputs[2]
OrigOutput == orig.outputs[1]
InputRank == Len(OrigInput.shape)
WeightRank == Len(OrigWeight.shape)

IsPrefix(s, t) == Len(s) <= Len(t) /\ \A i \in 1..Len(s) : s[i] = t[i]

\* the shape of a tensor lifted to rank 4 when it has rank 3
Shape4(shape) ==
    IF Len(shape) = 3 THEN <<shape[1], shape[2], 1, shape[3]>> ELSE shape

ChannelLast(shape) == <<shape[1], shape[3], shape[4], shape[2]>>

\* the indices of the emitted operators of the given kinds
Emitted(kinds) == {i \in 1..Len(emitted) : emitted[i].op.kind \in kinds}

Primitives == {"CONV_2D", "DEPTHWISE_CONV_2D", "TRANSPOSE_CONV"}

\* the emitted transposes of the weight: their first input is the weight,
\* lifted or not
WeightTransposes ==
    {i \in Emitted({"TRANSPOSE"}) :
        In(emitted[i].op)[1].name \in {OrigWeight.name,
            OrigOutput.name \o "_" \o OrigWeight.name \o "_4d_input"}}

(* ---- C1 ---- *)
BatchNormChain ==
    IF OrigInput.quantization # "None"
    THEN <<"DEQUANTIZE", "MUL", "ADD", "QUANTIZE">>
    ELSE <<"MUL", "ADD">>

\* C1: the operators BatchNormOperator.transform passes to add_operator are
\* dequantize, multiply, add, quantize in that order when the input carries
\* quantization parameters and multiply, add otherwise (at every moment a
\* prefix of that sequence, and the whole of it on return); the last one
\* produces the original output tensor.
C1_BatchNormChain ==
    kind = "BatchNorm" =>
        /\ IsPrefix(Kinds, BatchNormChain)
        /\ Returned =>
            /\ Kinds = BatchNormChain
            /\ Out(emitted[Len(emitted)].op) = <<OrigOutput>>

C1_Witness ==
    /\ kind = "BatchNorm" /\ Returned
    /\ OrigInput.quantization # "None"
    /\ Len(emitted) = 4

(* ---- C9 ---- *)
\* C9: BatchNormOperator.transform emits a linear chain: every emitted
\* operator after the first takes as its first input the output tensor of
\* the operator emitted immediately before it.
C9_LinearChain ==
    kind = "BatchNorm" =>
        \A i \in 2..Len(emitted) :
            In(emitted[i].op)[1] = Out(emitted[i - 1].op)[1]

(* ---- C2 ---- *)
PaddingNonzero == \E i \in 1..Len(orig.padding) : orig.padding[i] # 0

\* C2 as stated: a convolution lowering that completes has passed
\* 4 + (1 if any padding amount is nonzero) + (2 if the input or the weight
\* has rank 3) operators to add_operator.
C2_CountAsStated ==
    (kind = "GenericConv" /\ Returned) =>
        Len(emitted) = 4 + (IF PaddingNonzero THEN 1 ELSE 0)
                         + (IF InputRank = 3 \/ WeightRank = 3 THEN 2 ELSE 0)

\* C2, amended: a convolution lowering that completes has passed
\* 4 + (1 if any padding amount is nonzero) + (3 if the weight has rank 3,
\* else 2 if the input has rank 3, else 0) operators to add_operator: a
\* rank-3 weight is reshaped as well as the input and the output.
C2_Count ==
    (kind = "GenericConv" /\ Returned) =>
        Len(emitted) = 4 + (IF PaddingNonzero THEN 1 ELSE 0)
                         + (IF WeightRank = 3 THEN 3 ELSE IF InputRank = 3 THEN 2 ELSE 0)

C2_Witness ==
    /\ kind = "GenericConv" /\ Returned
    /\ WeightRank = 3 /\ InputRank = 3 /\ PaddingNonzero
    /\ Len(emitted) = 8
    /\ Cardinality(Emitted({"RESHAPE"})) = 3

(* ---- C3 ---- *)
IsLayoutIn(op) ==
    op.kind = "TRANSPOSE" /\ In(op)[1] = OrigInput /\ In(op)[2].data = <<0, 2, 3, 1>>

IsWeightTranspose(op) == op.kind = "TRANSPOSE" /\ In(op)[1] = OrigWeight

IsLayoutOut(op) ==
    op.kind = "TRANSPOSE" /\ Out(op)[1] = OrigOutput /\ In(op)[2].data = <<0, 3, 1, 2>>

Conv2dWithPadding ==
    /\ kind = "GenericConv" /\ Returned
    /\ InputRank = 4 /\ WeightRank = 4 /\ PaddingNonzero

\* C3 as stated: a 2-D convolution with nonzero padding is inserted as
\* layout-in transpose, pad, weight transpose, convolution, layout-out
\* transpose.
C3_OrderAsStated ==
    Conv2dWithPadding =>
        /\ Len(emitted) = 5
        /\ IsLayoutIn(emitted[1].op)
        /\ emitted[2].op.kind = "PAD"
        /\ IsWeightTranspose(emitted[3].op)
        /\ emitted[4].op.kind \in Primitives
        /\ IsLayoutOut(emitted[5].op)

\* C3, amended: a 2-D convolution with nonzero padding is inserted as
\* layout-in transpose, weight transpose, pad, convolution, layout-out
\* transpose: the weight transpose comes before the pad operator.
C3_Order ==
    Conv2dWithPadding =>
        /\ Len(emitted) = 5
        /\ IsLayoutIn(emitted[1].op)
        /\ IsWeightTranspose(emitted[2].op)
        /\ emitted[3].op.kind = "PAD"
        /\ emitted[4].op.kind \in Primitives
        /\ IsLayoutOut(emitted[5].op)
        /\ \A i \in 1..5 : emitted[i].transform

C3_Witness ==
    /\ Conv2dWithPadding
    /\ emitted[3].op.kind = "PAD"
    /\ In(emitted[4].op)[1] = Out(emitted[3].op)[1]

(* ---- C4 ---- *)
W4 == Shape4(OrigWeight.shape)

DepthwiseSelected == W4[2] = 1 /\ W4[1] = self.groups

\* C4 as stated: the permutation of the emitted weight transpose takes the
\* weight shape (out, in/groups, kh, kw) to (kh, kw, out, 1) for the
\* depthwise primitive and to (out, kh, kw, in/groups) for the standard one.
C4_WeightShapeAsStated ==
    kind = "GenericConv" =>
        \A i \in WeightTransposes :
            np_transpose(Array(W4, "", <<>>), In(emitted[i].op)[2].data).shape =
                IF DepthwiseSelected
                THEN <<W4[3], W4[4], W4[1], 1>>
                ELSE <<W4[1], W4[3], W4[4], W4[2]>>

\* C4, amended: the permutation of the emitted weight transpose takes the
\* weight shape (out, in/groups, kh, kw) to (1, kh, kw, out) for the
\* depthwise primitive and to (out, kh, kw, in/groups) for the standard
\* one, and that is the shape of the weight the primitive reads.
C4_WeightShape ==
    kind = "GenericConv" =>
        \A i \in WeightTransposes :
            LET expected == IF DepthwiseSelected
                            THEN <<1, W4[3], W4[4], W4[1]>>
                            ELSE <<W4[1], W4[3], W4[4], W4[2]>>
            IN /\ np_transpose(Array(W4, "", <<>>), In(emitted[i].op)[2].data).shape = expected
               /\ Out(emitted[i].op)[1].shape = expected
               /\ conv_op.kind = (IF DepthwiseSelected THEN "DEPTHWISE_CONV_2D" ELSE "CONV_2D")
               /\ In(conv_op)[2] = Out(emitted[i].op)[1]

C4_Witness ==
    /\ kind = "GenericConv" /\ Returned
    /\ DepthwiseSelected /\ W4[1] > 1
    /\ WeightTransposes # {}

(* ---- C5 ---- *)
SupportedRanks == {3, 4}

\* C5: whenever the rank of the weight or of the input is outside {3, 4},
\* GenericConvOperator.transform fails with the precondition violation
\* "Only Conv[Transpose]1d/2d is supported", with no operator inserted and
\* no edge restoration requested.
C5_UnsupportedRank ==
    (/\ kind = "GenericConv"
     /\ (InputRank \notin SupportedRanks \/ WeightRank \notin SupportedRanks)) =>
        /\ pc = "done" => error = Unsupported
        /\ emitted = <<>>
        /\ ~restored

(* ---- C7 ---- *)
OutputChannels == OrigWeight.shape[1]

BiasReached ==
    /\ kind = "GenericConv" /\ pc = "done"
    /\ InputRank \in SupportedRanks /\ WeightRank \in SupportedRanks
    /\ ~(InputRank = 4 /\ WeightRank = 3)

\* C7: after the lowering of a convolution of supported ranks the primitive
\* has a third input, a vector as long as the output-channel count (axis 0
\* of the original weight); it is all zero when no bias was supplied, and
\* every element is the original scalar when a bias of length 1 was supplied
\* and the output-channel count is larger.
C7_Bias ==
    BiasReached =>
        LET inputs == In(conv_op)
            given == Len(orig.inputs) > 2 /\ orig.inputs[3] # None
        IN /\ error \notin {"TypeError"}
           /\ Len(inputs) >= 3
           /\ inputs[3] # None
           /\ inputs[3].shape = <<OutputChannels>>
           /\ ~given => inputs[3].data = Zeros(OutputChannels)
           /\ (given /\ orig.inputs[3].shape = <<1>>) =>
                 inputs[3].data = [i \in 1..OutputChannels |-> orig.inputs[3].data[1]]

(* ---- C6 ---- *)
Inspecting == kind = "GenericConv" /\ pc = "check" /\ checked < Len(emitted) - 1

Faulted == pc = "done" /\ error \in {"AssertionError: outdegree", "AssertionError: CONSTANT_NODE"}

\* C6 as stated: when the node of the first output of an emitted operator
\* other than the last has out-degree 0 or has any constant-valued
\* successor, the lowering raises.
C6_PostConditionAsStated ==
    [][Inspecting =>
          ((Len(node') = 0 \/ \E j \in 1..Len(node') : node'[j] = "CONSTANT_NODE")
              => Faulted')]_vars

\* C6, amended: after edge restoration the operators other than the last
\* are inspected in order; the lowering raises when the node of an
\* operator's first output has out-degree 0 or when the target of its first
\* out-edge is a constant-valued node, and otherwise goes on to the next
\* operator; it returns normally only after all of them passed.  Successors
\* other than the first are not looked at.
C6_PostCondition ==
    [][(kind = "GenericConv" /\ pc = "check") =>
          IF checked < Len(emitted) - 1
          THEN IF Len(node') = 0 \/ node'[1] = "CONSTANT_NODE"
               THEN Faulted'
               ELSE pc' = "check" /\ error' = "none" /\ checked' = checked + 1
          ELSE Returned' /\ checked' = Len(emitted) - 1]_vars

C6_Witness ==
    /\ kind = "GenericConv" /\ pc = "check" /\ restored
    /\ checked >= 1
    /\ node = <<"OPERATOR", "CONSTANT_NODE">>

(* ---- C8 ---- *)
CountsBefore(i) ==
    IF i = 1 THEN [attr_count |-> 0, transform_count |-> 0]
    ELSE [attr_count |-> calls[i - 1].attr_count,
          transform_count |-> calls[i - 1].transform_count]

\* C8: the names the factory generated during one lowering are pairwise
\* distinct; an unnamed call increments the counter of its own kind by one
\* and leaves the other alone, and a call with an explicit name leaves both
\* unchanged.
C8_Factory ==
    /\ \A i, j \in 1..Len(calls) : i # j => calls[i].name # calls[j].name
    /\ \A i \in 1..Len(calls) :
          LET before == CountsBefore(i)
              da == calls[i].attr_count - before.attr_count
              dt == calls[i].transform_count - before.transform_count
          IN IF calls[i].explicit THEN da = 0 /\ dt = 0
             ELSE IF calls[i].kind = "attr" THEN da = 1 /\ dt = 0
             ELSE da = 0 /\ dt = 1
    /\ LET last == CountsBefore(Len(calls) + 1)
       IN self.attr_count = last.attr_count /\ self.transform_count = last.transform_count

C8_Witness ==
    /\ kind = "GenericConv" /\ Returned
    /\ WeightRank = 3 /\ PaddingNonzero
    /\ Cardinality({i \in 1..Len(calls) : calls[i].explicit}) = 3
    /\ Cardinality({i \in 1..Len(calls) : ~calls[i].explicit}) >= 10
    /\ OName # OrigOutput.name

(* ---- C10 ---- *)
\* the padding amounts on the two spatial axes of the lifted operator
PadHW == IF WeightRank = 3 THEN <<0, orig.padding[1]>> ELSE <<orig.padding[1], orig.padding[2]>>

FinalShape == ChannelLast(Shape4(OrigOutput.shape))

\* C10: when any padding amount is nonzero a slice is emitted right after
\* the transposed-convolution primitive, reading its output, with start
\* [0, pad_h, pad_w, 0] and size the channel-last shape of the final
\* output, and the output-shape tensor is that shape enlarged by 2*pad_h and
\* 2*pad_w on the spatial axes, so start + size stays within it; with no
\* padding there is no slice and the output-shape tensor is the channel-last
\* shape of the final output.  The inputs of the primitive are output
\* shape, reordered weight, channel-last data input.
C10_Crop ==
    (kind = "GenericTransposeConv" /\ Returned) =>
        \E i \in Emitted({"TRANSPOSE_CONV"}) :
            LET prim == emitted[i].op
                inputs == In(prim)
                oshape == inputs[1].data
            IN /\ Emitted({"TRANSPOSE_CONV"}) = {i}
               /\ Len(inputs) = 3
               /\ inputs[1].has_buffer
               /\ \E j \in WeightTransposes :
                     /\ inputs[2] = Out(emitted[j].op)[1]
                     /\ In(emitted[j].op)[2].data = <<1, 2, 3, 0>>
               /\ inputs[3] = Out(emitted[Len(prev_ops) + 1].op)[1]
               /\ inputs[3].shape = ChannelLast(Shape4(OrigInput.shape))
               /\ IF PaddingNonzero
                  THEN LET slice == emitted[i + 1].op
                           start == In(slice)[2].data
                           size == In(slice)[3].data
                       IN /\ slice.kind = "SLICE"
                          /\ Emitted({"SLICE"}) = {i + 1}
                          /\ In(slice)[1] = Out(prim)[1]
                          /\ start = <<0, PadHW[1], PadHW[2], 0>>
                          /\ size = FinalShape
                          /\ oshape = <<FinalShape[1], FinalShape[2] + 2 * PadHW[1],
                                        FinalShape[3] + 2 * PadHW[2], FinalShape[4]>>
                          /\ Out(prim)[1].shape = oshape
                          /\ \A k \in 1..4 : start[k] + size[k] <= oshape[k]
                  ELSE /\ Emitted({"SLICE"}) = {}
                       /\ oshape = FinalShape

C10_Witness ==
    /\ kind = "GenericTransposeConv" /\ Returned
    /\ WeightRank = 4
    /\ orig.padding = <<1, 1>>
    /\ Len(orig.inputs) = 3 /\ orig.inputs[3] # None
    /\ Kinds = <<"TRANSPOSE", "TRANSPOSE", "TRANSPOSE_CONV", "SLICE", "ADD", "TRANSPOSE">>

====
